---- MODULE Spec2Model ----
(***************************************************************************)
(* TailwindPrefixBot: the class-name classifier, the prefix rewriter, the  *)
(* per-dialect extractors, the constructor and the methods on files.       *)
(*                                                                         *)
(* A JavaScript string is a sequence of characters; a character is a       *)
(* one-character TLA+ string.  Indices are JavaScript's: 0-based, -1 for   *)
(* "not found"; substring(s, a, b) is s.substring(a, b).                   *)
(***************************************************************************)
EXTENDS Integers, Sequences, FiniteSets, TLC

VARIABLES
    prefix,          \* this.prefix
    ignoreClasses,   \* this.ignoreClasses (an array)
    classesChanged,  \* this.stats.classesChanged
    op,              \* the method that has run ("new": only the constructor)
    className,       \* argument of addPrefixToClass
    content,         \* argument of the process* methods
    filePath,        \* argument of processContent, processFile, createBackup
    out,             \* value the method returned
    dryRun,          \* this.dryRun
    backup,          \* this.backup
    files,           \* the files on disk: path (relative to this.sourceDir) -> content
    backups,         \* the files of this.backupDir: file name -> content
    events,          \* the file operations of the last method run, in order
    ret,             \* how the last method on files ended: [thrown, value]
    options          \* argument of the constructor

fileVars == <<dryRun, backup, files, backups, events, ret>>

vars == <<prefix, ignoreClasses, classesChanged, op, className, content, filePath, out,
          dryRun, backup, files, backups, events, ret, options>>

----------------------------------------------------------------------------
(* Characters and strings *)

Chars(str) == [i \in 1..Len(str) |-> SubSeq(str, i, i)]

\* The character U+0060 (a TLA+ string cannot hold it).
Backtick == "BACKTICK"

LowerChars == {"a","b","c","d","e","f","g","h","i","j","k","l","m",
               "n","o","p","q","r","s","t","u","v","w","x","y","z"}
UpperChars == {"A","B","C","D","E","F","G","H","I","J","K","L","M",
               "N","O","P","Q","R","S","T","U","V","W","X","Y","Z"}
DigitChars == {"0","1","2","3","4","5","6","7","8","9"}
\* \s and the line terminators: the ASCII ones (the inputs hold no others)
WhitespaceChars == {" ", "\t", "\n", "\r", "\f"}
LineTerminators == {"\n", "\r"}
\* [a-zA-Z0-9_-]
WordChars == LowerChars \cup UpperChars \cup DigitChars \cup {"_", "-"}

substring(s, a, b) == SubSeq(s, a + 1, b)
substringFrom(s, a) == SubSeq(s, a + 1, Len(s))

startsWith(s, t) == Len(t) <= Len(s) /\ SubSeq(s, 1, Len(t)) = t

\* s.indexOf(t): the least 0-based index where t occurs in s, -1 if none
indexOf(s, t) ==
    LET at == {i \in 0..(Len(s) - Len(t)) : substring(s, i, i + Len(t)) = t}
    IN IF at = {} THEN -1 ELSE CHOOSE i \in at : \A j \in at : i <= j

includes(s, t) == indexOf(s, t) # -1

\* s.lastIndexOf(c) for a character c
lastIndexOf(s, c) ==
    LET at == {i \in 0..(Len(s) - 1) : s[i + 1] = c}
    IN IF at = {} THEN -1 ELSE CHOOSE i \in at : \A j \in at : j <= i

\* array.includes(x)
arrayIncludes(arr, x) == \E i \in 1..Len(arr) : arr[i] = x

\* JavaScript values: typeof, and the text of a string, number or boolean
Undefined == [type |-> "undefined", str |-> <<>>]
Null == [type |-> "object", str |-> Chars("null")]
Str(s) == [type |-> "string", str |-> s]
Num(s) == [type |-> "number", str |-> s]
Bool(s) == [type |-> "boolean", str |-> s]

\* ToBoolean(v)
truthy(v) ==
    CASE v.type = "undefined" -> FALSE
      [] v.type = "string" -> v.str # <<>>
      [] v.type = "number" -> v.str \notin {Chars("0"), Chars("NaN")}
      [] v.type = "boolean" -> v.str = Chars("true")
      [] v.type = "object" -> v.str # Chars("null")

\* the options object {}
NoOptions ==
    [prefix |-> Undefined, sourceDir |-> Undefined, logLevel |-> Undefined,
     dryRun |-> Undefined, backup |-> Undefined]

\* a directory without files
NoFiles == [p \in {} |-> <<>>]

RECURSIVE joinWith(_, _)
\* array.join(sep)
joinWith(arr, sep) ==
    IF arr = <<>> THEN <<>>
    ELSE IF Len(arr) = 1 THEN arr[1]
    ELSE arr[1] \o sep \o joinWith(Tail(arr), sep)

RECURSIVE splitWs(_, _)
\* s.split(/\s+/).filter(c => c.length > 0): the maximal whitespace-free runs
\* of s, in order (cur is the run being read)
splitWs(s, cur) ==
    IF s = <<>> THEN (IF cur = <<>> THEN <<>> ELSE <<cur>>)
    ELSE IF Head(s) \in WhitespaceChars
         THEN (IF cur = <<>> THEN <<>> ELSE <<cur>>) \o splitWs(Tail(s), <<>>)
         ELSE splitWs(Tail(s), Append(cur, Head(s)))

----------------------------------------------------------------------------
(* Regular expressions: a backtracking matcher.  Ends(re, s, i) is the     *)
(* sequence of positions where a match of re that starts at position i of  *)
(* s can end, in the order a backtracking engine tries them (greedy        *)
(* quantifiers try the longest first).  Positions count the characters     *)
(* consumed: 0..Len(s).                                                    *)

Set(cs)    == [t |-> "set", cs |-> cs, neg |-> FALSE]   \* [...]
NotSet(cs) == [t |-> "set", cs |-> cs, neg |-> TRUE]    \* [^...]
Cat(rs)    == [t |-> "cat", rs |-> rs]
Star(r)    == [t |-> "star", r |-> r]                   \* r*
Plus(r)    == [t |-> "cat", rs |-> <<r, [t |-> "star", r |-> r]>>]  \* r+
Opt(r)     == [t |-> "opt", r |-> r]                    \* r?
Eos        == [t |-> "eos"]                             \* $ (no m flag)
\* (?<=^|[cs]) under the m flag
BehindLineStartOr(cs) == [t |-> "behind", cs |-> cs]
\* a literal; under the i flag a letter matches in either case
Lit(str)   == [t |-> "cat", rs |-> [i \in 1..Len(str) |-> Set({SubSeq(str, i, i)})]]
LitI(lower, upper) ==
    [t |-> "cat",
     rs |-> [i \in 1..Len(lower) |-> Set({SubSeq(lower, i, i), SubSeq(upper, i, i)})]]
Dot        == NotSet(LineTerminators)                   \* . (no s flag)

RECURSIVE Ends(_, _, _)
RECURSIVE EndsFrom(_, _, _)
RECURSIVE CatEnds(_, _, _)
RECURSIVE StarFrom(_, _, _)

Ends(re, s, i) ==
    CASE re.t = "set" ->
            IF i < Len(s) /\ ((s[i + 1] \in re.cs) # re.neg) THEN <<i + 1>> ELSE <<>>
      [] re.t = "cat" -> CatEnds(re.rs, s, <<i>>)
      [] re.t = "star" ->
            StarFrom(re.r, s, SelectSeq(Ends(re.r, s, i), LAMBDA e : e > i)) \o <<i>>
      [] re.t = "opt" -> Ends(re.r, s, i) \o <<i>>
      [] re.t = "eos" -> IF i = Len(s) THEN <<i>> ELSE <<>>
      [] re.t = "behind" ->
            IF i = 0 \/ s[i] \in LineTerminators \/ s[i] \in re.cs THEN <<i>> ELSE <<>>

EndsFrom(re, s, starts) ==
    IF starts = <<>> THEN <<>>
    ELSE Ends(re, s, Head(starts)) \o EndsFrom(re, s, Tail(starts))

CatEnds(rs, s, starts) ==
    IF rs = <<>> THEN starts
    ELSE CatEnds(Tail(rs), s, EndsFrom(Head(rs), s, starts))

StarFrom(r, s, starts) ==
    IF starts = <<>> THEN <<>>
    ELSE Ends(Star(r), s, Head(starts)) \o StarFrom(r, s, Tail(starts))

RECURSIVE MatchParts(_, _, _)
RECURSIVE TryEnds(_, _, _, _)
\* A regular expression given as its consecutive parts (so that the parts'
\* boundaries give the capture groups): the boundaries <<i, e1, .., ek>> of
\* the first match starting at i, <<>> when there is none.
MatchParts(parts, s, i) ==
    IF parts = <<>> THEN <<i>>
    ELSE TryEnds(parts, s, i, Ends(Head(parts), s, i))

TryEnds(parts, s, i, es) ==
    IF es = <<>> THEN <<>>
    ELSE LET rest == MatchParts(Tail(parts), s, Head(es))
         IN IF rest # <<>> THEN <<i>> \o rest
            ELSE TryEnds(parts, s, i, Tail(es))

RECURSIVE AllMatches(_, _, _)
\* The matches a /g regular expression finds in s from position i on, left
\* to right and not overlapping (String.prototype.replace, matchAll).
AllMatches(parts, s, i) ==
    IF i > Len(s) THEN <<>>
    ELSE LET m == MatchParts(parts, s, i)
         IN IF m = <<>> THEN AllMatches(parts, s, i + 1)
            ELSE <<m>> \o AllMatches(parts, s, IF m[Len(m)] = i THEN i + 1 ELSE m[Len(m)])

RECURSIVE Splice(_, _, _, _)
\* s.replace(re, fn): s with match ms[k] replaced by reps[k]; i is the
\* position up to which s has been copied.
Splice(s, ms, reps, i) ==
    IF ms = <<>> THEN substringFrom(s, i)
    ELSE LET m == Head(ms)
         IN substring(s, i, m[1]) \o Head(reps) \o Splice(s, Tail(ms), Tail(reps), m[Len(m)])

----------------------------------------------------------------------------
(* The classifier: isNotTailwindClass *)

\* className with everything up to the last ':' and then one leading '!'
\* removed
classToCheck(name) ==
    LET lastColonIndex == lastIndexOf(name, ":")
        afterColon == IF lastColonIndex # -1
                      THEN substringFrom(name, lastColonIndex + 1)
                      ELSE name
    IN IF startsWith(afterColon, <<"!">>) THEN substringFrom(afterColon, 1)
       ELSE afterColon

\* /[a-z][A-Z]/.test(c)
hasCamelCase(c) ==
    \E i \in 1..(Len(c) - 1) : c[i] \in LowerChars /\ c[i + 1] \in UpperChars

hasSnakeCase_noBracketExemption(c) == includes(c, <<"_">>)

\* c.includes('_') && !c.includes('[')
hasSnakeCase(c) == includes(c, <<"_">>) /\ ~includes(c, <<"[">>)

\* /^[A-Z]/.test(c) || c.includes('__') || /^\d/.test(c) || c.length < 2
isCustomClass(c) ==
    \/ (c # <<>> /\ c[1] \in UpperChars)
    \/ includes(c, <<"_", "_">>)
    \/ (c # <<>> /\ c[1] \in DigitChars)
    \/ Len(c) < 2

FrameworkPrefixes == {Chars("ng-"), Chars("v-"), Chars("data-"), Chars("aria-"), Chars("role-")}

\* /^(ng-|v-|data-|aria-|role-)/.test(c)
isFrameworkClass(c) == \E p \in FrameworkPrefixes : startsWith(c, p)

isNotTailwindClass(name) ==
    LET c == classToCheck(name)
    IN IF arrayIncludes(ignoreClasses, c) THEN TRUE
       ELSE hasCamelCase(c) \/ hasSnakeCase(c) \/ isCustomClass(c) \/ isFrameworkClass(c)

----------------------------------------------------------------------------
(* The rewriter: addPrefixToClass *)

\* /^(.*group-[^:]*:)(.+)$/ and /^(.*peer-[^:]*:)(.+)$/, as <<group 1, group 2, $>>
ModifierRegex(word) ==
    <<Cat(<<Star(Dot), Lit(word), Star(NotSet({":"})), Lit(":")>>), Plus(Dot), Eos>>

\* name.match(regex) for a regex anchored by ^: its boundaries, <<>> for null
matchAtStart(name, regex) == MatchParts(regex, name, 0)

alreadyPrefixed_startsWith(name) == startsWith(name, prefix)

\* className.includes(this.prefix)
alreadyPrefixed(name) == includes(name, prefix)

prefixSimple_bangInside(name) == prefix \o name

\* the branch without ':' of addPrefixToClass
prefixSimple(name) ==
    IF startsWith(name, <<"!">>) THEN <<"!">> \o prefix \o substringFrom(name, 1)
    ELSE prefix \o name

prefixAfterColon_atFront(name, lastColonIndex) == prefix \o name

\* the branch with a ':' of addPrefixToClass
prefixAfterColon(name, lastColonIndex) ==
    LET beforeLastColon == substring(name, 0, lastColonIndex + 1)
        afterLastColon == substringFrom(name, lastColonIndex + 1)
    IN IF startsWith(afterLastColon, <<"!">>)
       THEN beforeLastColon \o <<"!">> \o prefix \o substringFrom(afterLastColon, 1)
       ELSE beforeLastColon \o prefix \o afterLastColon

RECURSIVE addPrefixToClass(_)
addPrefixToClass(name) ==
    IF alreadyPrefixed(name) THEN name
    ELSE IF isNotTailwindClass(name) THEN name
    ELSE LET groupMatch == IF includes(name, Chars("group-"))
                           THEN matchAtStart(name, ModifierRegex("group-")) ELSE <<>>
             peerMatch == IF includes(name, Chars("peer-"))
                          THEN matchAtStart(name, ModifierRegex("peer-")) ELSE <<>>
             lastColonIndex == lastIndexOf(name, ":")
         IN IF groupMatch # <<>>
            THEN substring(name, 0, groupMatch[2])
                 \o addPrefixToClass(substring(name, groupMatch[2], groupMatch[3]))
            ELSE IF peerMatch # <<>>
            THEN substring(name, 0, peerMatch[2])
                 \o addPrefixToClass(substring(name, peerMatch[2], peerMatch[3]))
            ELSE IF lastColonIndex = -1 THEN prefixSimple(name)
            ELSE prefixAfterColon(name, lastColonIndex)

----------------------------------------------------------------------------
(* The extractors *)

Quotes == {"\"", "'"}

\* this.patterns.htmlClass, /class\s*=\s*["']([^"']*(?:\\.[^"']*)*)["']/gis,
\* as <<text before group 1, group 1, text after group 1>>
HtmlClassRegex ==
    <<Cat(<<LitI("class", "CLASS"), Star(Set(WhitespaceChars)), Lit("="),
            Star(Set(WhitespaceChars)), Set(Quotes)>>),
      Cat(<<Star(NotSet(Quotes)),
            Star(Cat(<<Lit("\\"), NotSet({}), Star(NotSet(Quotes))>>))>>),
      Set(Quotes)>>

\* /className\s*=\s*[{"'`]([^"'`}]*)[}"'`]/gi
JsClassNameRegex ==
    <<Cat(<<LitI("classname", "CLASSNAME"), Star(Set(WhitespaceChars)), Lit("="),
            Star(Set(WhitespaceChars)), Set({"{", "\"", "'", Backtick})>>),
      Star(NotSet({"\"", "'", Backtick, "}"})),
      Set({"}", "\"", "'", Backtick})>>

\* /(?<=^|[\s,{])\.([a-zA-Z0-9_-]+)/gm
CssSelectorRegex ==
    <<Cat(<<BehindLineStartOr(WhitespaceChars \cup {",", "{"}), Lit(".")>>),
      Plus(Set(WordChars))>>

\* /@apply\s+([^;{}]+);?/gs
CssApplyRegex ==
    <<Cat(<<Lit("@apply"), Plus(Set(WhitespaceChars))>>),
      Plus(NotSet({";", "{", "}"})),
      Opt(Lit(";"))>>

\* /;;+/g
SemicolonsRegex == <<Cat(<<Lit(";"), Plus(Lit(";"))>>)>>

\* the text of a match and of its capture group
matchText(s, m) == substring(s, m[1], m[Len(m)])
captureText(s, m) == substring(s, m[2], m[3])

RECURSIVE expandReplacement(_, _, _, _)
\* the replacement string of str.replace(pattern, rep), with its special
\* patterns $$, $&, $` and $' expanded
expandReplacement(rep, matched, before, after) ==
    IF rep = <<>> THEN <<>>
    ELSE IF Len(rep) >= 2 /\ rep[1] = "$" /\ rep[2] \in {"$", "&", Backtick, "'"}
    THEN (CASE rep[2] = "$" -> <<"$">>
            [] rep[2] = "&" -> matched
            [] rep[2] = Backtick -> before
            [] rep[2] = "'" -> after)
         \o expandReplacement(SubSeq(rep, 3, Len(rep)), matched, before, after)
    ELSE <<Head(rep)>> \o expandReplacement(Tail(rep), matched, before, after)

\* str.replace(pattern, rep) for a string pattern: the first occurrence only
strReplaceFirst(str, pattern, rep) ==
    LET k == indexOf(str, pattern)
    IN IF k = -1 THEN str
       ELSE LET before == substring(str, 0, k)
                after == substringFrom(str, k + Len(pattern))
            IN before \o expandReplacement(rep, pattern, before, after) \o after

\* classes.map(className => this.addPrefixToClass(className))
mapAddPrefix(classes) == [i \in 1..Len(classes) |-> addPrefixToClass(classes[i])]

\* match.replace(classString, newClassString)
spliceBack(match, classString, newClassString) ==
    strReplaceFirst(match, classString, newClassString)

\* the replacer of processHtmlClasses
htmlReplacer(match, classString) ==
    spliceBack(match, classString,
               joinWith(mapAddPrefix(splitWs(classString, <<>>)), <<" ">>))

processHtmlClasses(text) ==
    LET ms == AllMatches(HtmlClassRegex, text, 0)
    IN Splice(text, ms,
              [k \in 1..Len(ms) |->
                  htmlReplacer(matchText(text, ms[k]), captureText(text, ms[k]))],
              0)

RECURSIVE SumSeq(_)
SumSeq(ns) == IF ns = <<>> THEN 0 ELSE Head(ns) + SumSeq(Tail(ns))

\* changeCount of processHtmlClasses: the tokens addPrefixToClass changed
htmlChangeCount(text) ==
    LET ms == AllMatches(HtmlClassRegex, text, 0)
    IN SumSeq([k \in 1..Len(ms) |->
                 LET classes == splitWs(captureText(text, ms[k]), <<>>)
                 IN Cardinality({i \in 1..Len(classes) :
                                   addPrefixToClass(classes[i]) # classes[i]})])

\* the replacer of processCssSelectors
selectorReplacer(match, name) ==
    IF arrayIncludes(ignoreClasses, name) THEN match
    ELSE IF startsWith(name, prefix) THEN match
    ELSE <<".">> \o prefix \o name

processCssSelectors(text) ==
    LET ms == AllMatches(CssSelectorRegex, text, 0)
    IN Splice(text, ms,
              [k \in 1..Len(ms) |->
                  selectorReplacer(matchText(text, ms[k]), captureText(text, ms[k]))],
              0)

\* the .map callback of processApplyDirectives
applyToken(name) ==
    IF "{" \in {name[i] : i \in 1..Len(name)} \/ "}" \in {name[i] : i \in 1..Len(name)}
    THEN name
    ELSE addPrefixToClass(name)

\* the replacer of processApplyDirectives
applyReplacer(match, classString) ==
    LET split == splitWs(classString, <<>>)
        classes == [i \in 1..Len(split) |-> applyToken(split[i])]
    IN Chars("@apply ") \o joinWith(classes, <<" ">>) \o <<";">>

\* .replace(/;;+/g, ';')
collapseSemicolons(text) ==
    LET ms == AllMatches(SemicolonsRegex, text, 0)
    IN Splice(text, ms, [k \in 1..Len(ms) |-> <<";">>], 0)

applyDirectivesReplaced(text) ==
    LET ms == AllMatches(CssApplyRegex, text, 0)
    IN Splice(text, ms,
              [k \in 1..Len(ms) |->
                  applyReplacer(matchText(text, ms[k]), captureText(text, ms[k]))],
              0)

processApplyDirectives(text) == collapseSemicolons(applyDirectivesReplaced(text))

\* the replacer of processJsClasses
jsReplacer(match, classString) ==
    IF includes(classString, Chars("${")) \/ includes(classString, <<"?">>)
    THEN match
    ELSE spliceBack(match, classString,
                    joinWith(mapAddPrefix(splitWs(classString, <<>>)), <<" ">>))

processJsClasses(text) ==
    LET ms == AllMatches(JsClassNameRegex, text, 0)
    IN Splice(text, ms,
              [k \in 1..Len(ms) |->
                  jsReplacer(matchText(text, ms[k]), captureText(text, ms[k]))],
              0)

\* String.prototype.toLowerCase on the model's alphabet
toLowerCase(s) ==
    LET upper == "ABCDEFGHIJKLMNOPQRSTUVWXYZ"
        lower == "abcdefghijklmnopqrstuvwxyz"
    IN [i \in 1..Len(s) |->
          IF s[i] \in UpperChars
          THEN LET k == CHOOSE k \in 1..26 : SubSeq(upper, k, k) = s[i]
               IN SubSeq(lower, k, k)
          ELSE s[i]]

\* path.extname: from the last '.' of the last path segment to the end;
\* empty when that segment has no '.' or only a leading one
extname(p) ==
    LET base == substringFrom(p, lastIndexOf(p, "/") + 1)
        dot == lastIndexOf(base, ".")
    IN IF dot <= 0 THEN <<>> ELSE substringFrom(base, dot)

HtmlExts == {Chars(".html"), Chars(".php"), Chars(".vue")}
JsExts == {Chars(".js"), Chars(".jsx"), Chars(".ts"), Chars(".tsx")}

processContent(text, path) ==
    LET fileExt == toLowerCase(extname(path))
    IN IF fileExt \in HtmlExts THEN processHtmlClasses(text)
       ELSE IF fileExt = Chars(".css")
       THEN processApplyDirectives(processCssSelectors(text))
       ELSE IF fileExt \in JsExts
       THEN processHtmlClasses(processJsClasses(text))
       ELSE text

\* what processContent adds to this.stats.classesChanged
contentChangeCount(text, path) ==
    LET fileExt == toLowerCase(extname(path))
    IN IF fileExt \in HtmlExts THEN htmlChangeCount(text)
       ELSE IF fileExt \in JsExts THEN htmlChangeCount(processJsClasses(text))
       ELSE 0

----------------------------------------------------------------------------
(* Inputs *)

\* the number of atoms in the part of a generated token after its modifiers
MaxTailAtoms == 3

Prefixes == {Chars("tw-"), Chars("md")}

IgnoreLists ==
    {<<Chars("swiper"), Chars("swiper-wrapper"), Chars("swiper-slide")>>,
     <<Chars("bg"), Chars("!swiper")>>}

ModifierChains ==
    {<<>>, Chars("hover:"), Chars("md:hover:"), Chars("group-hover:"), Chars("peer-focus:md:")}

Negations == {<<>>, <<"!">>}

TailAtoms ==
    {Chars("bg"), Chars("tw-"), Chars("A"), Chars("1"), Chars("_"),
     Chars("[a"), Chars("b]"), Chars(":"), Chars("ng-"), Chars("swiper")}

RECURSIVE Flatten(_)
Flatten(ss) == IF ss = <<>> THEN <<>> ELSE Head(ss) \o Flatten(Tail(ss))

Tails ==
    {Flatten(as) : as \in UNION {[1..n -> TailAtoms] : n \in 0..MaxTailAtoms}}

Tokens == {m \o n \o t : m \in ModifierChains, n \in Negations, t \in Tails}

\* the number of class names in a generated class list
MaxClasses == 2

ListTokens == {Chars("bg"), Chars("md:bg"), Chars("class"), Chars("Ab")}

\* the whitespace of a class list: what leads it and what separates its names
ListLayouts == {[pad |-> <<>>, sep |-> <<" ">>], [pad |-> <<" ">>, sep |-> <<"\n", " ">>]}

\* static class lists: class names separated (and possibly led) by whitespace
ClassLists ==
    {l.pad \o joinWith(cs, l.sep) :
        l \in ListLayouts, cs \in UNION {[1..n -> ListTokens] : n \in 0..MaxClasses}}

\* class expressions that are not static class lists
TemplateValues == {Chars("bg ${x}"), Chars("ok ? bg : Ab")}
ComputedValues == {Chars("styles.bg"), Chars("cn(bg)"), Chars("active")}

AttrValues == ClassLists \cup TemplateValues \cup ComputedValues

\* the text around an attribute value: what precedes the attribute, its
\* name, the whitespace around '=', what follows the closing delimiter
AttrShapes ==
    {[pre |-> <<>>, name |-> Chars("class"), ws1 |-> <<>>, ws2 |-> <<>>, post |-> <<>>],
     [pre |-> Chars("<p "), name |-> Chars("class"), ws1 |-> <<" ">>, ws2 |-> <<" ">>,
      post |-> Chars(">")],
     [pre |-> <<>>, name |-> Chars("className"), ws1 |-> <<>>, ws2 |-> <<>>, post |-> <<>>],
     [pre |-> Chars("<p "), name |-> Chars("className"), ws1 |-> <<" ">>, ws2 |-> <<>>,
      post |-> Chars(">")]}

\* opening and closing delimiters of an attribute value
AttrDelimiters ==
    {<<<<"\"">>, <<"\"">>>>, <<<<"'">>, <<"'">>>>, <<<<Backtick>>, <<Backtick>>>>,
     <<<<"{", "\"">>, <<"\"", "}">>>>, <<<<"{", Backtick>>, <<Backtick, "}">>>>,
     <<<<"{">>, <<"}">>>>}

Attr(sh, d, v) ==
    sh.pre \o sh.name \o sh.ws1 \o <<"=">> \o sh.ws2 \o d[1] \o v \o d[2] \o sh.post

AttrContents == {Attr(sh, d, v) : sh \in AttrShapes, d \in AttrDelimiters, v \in AttrValues}

CssSelectors ==
    {Chars(".bg"), Chars(".tw-bg"), Chars(".swiper"), Chars("p"), Chars(".bg,.Ab"),
     Chars("a .bg")}

CssBodies ==
    {<<>>, Chars("c:d;;")}
    \cup {Chars("@apply ") \o v \o t : v \in ClassLists, t \in {<<>>, <<";">>, <<";", ";">>}}

CssContents == {sel \o <<"{">> \o body \o <<"}">> : sel \in CssSelectors, body \in CssBodies}

FilePaths ==
    {Chars("a.html"), Chars("a.php"), Chars("a.vue"), Chars("a.svelte"), Chars("a.css"),
     Chars("a.scss"), Chars("a.sass"), Chars("a.js"), Chars("a.jsx"), Chars("a.ts"),
     Chars("a.tsx"), Chars("src/A.HTML"), Chars("a.txt")}

----------------------------------------------------------------------------
(* The state machine *)

Init ==
    /\ prefix \in Prefixes
    /\ ignoreClasses \in IgnoreLists
    /\ classesChanged = 0
    /\ op = "new"
    /\ className = <<>>
    /\ content = <<>>
    /\ filePath = <<>>
    /\ out = <<>>
    /\ dryRun = FALSE
    /\ backup = TRUE
    /\ files = NoFiles
    /\ backups = NoFiles
    /\ events = <<>>
    /\ ret = [thrown |-> FALSE, value |-> <<>>]
    /\ options = NoOptions

\* the state after new TailwindPrefixBot({}): every option at its default
InitDefault ==
    /\ prefix = Chars("tw-")
    /\ ignoreClasses = <<Chars("swiper"), Chars("swiper-wrapper"), Chars("swiper-slide")>>
    /\ classesChanged = 0
    /\ op = "new"
    /\ className = <<>>
    /\ content = <<>>
    /\ filePath = <<>>
    /\ out = <<>>
    /\ dryRun = FALSE
    /\ backup = TRUE
    /\ files = NoFiles
    /\ backups = NoFiles
    /\ events = <<>>
    /\ ret = [thrown |-> FALSE, value |-> <<>>]
    /\ options = NoOptions

AddPrefixToClass ==
    /\ op = "new"
    /\ \E t \in Tokens :
         /\ className' = t
         /\ out' = addPrefixToClass(t)
    /\ op' = "addPrefixToClass"
    /\ UNCHANGED <<prefix, ignoreClasses, classesChanged, content, filePath, fileVars, options>>

NextRewrite == AddPrefixToClass

SpecRewrite == Init /\ [][NextRewrite]_vars

ProcessHtmlClasses ==
    /\ op = "new"
    /\ \E c \in AttrContents :
         /\ content' = c
         /\ out' = processHtmlClasses(c)
         /\ classesChanged' = classesChanged + htmlChangeCount(c)
    /\ op' = "processHtmlClasses"
    /\ UNCHANGED <<prefix, ignoreClasses, className, filePath, fileVars, options>>

ProcessJsClasses ==
    /\ op = "new"
    /\ \E c \in AttrContents :
         /\ content' = c
         /\ out' = processJsClasses(c)
    /\ op' = "processJsClasses"
    /\ UNCHANGED <<prefix, ignoreClasses, classesChanged, className, filePath, fileVars, options>>

ProcessCssSelectors ==
    /\ op = "new"
    /\ \E c \in CssContents :
         /\ content' = c
         /\ out' = processCssSelectors(c)
    /\ op' = "processCssSelectors"
    /\ UNCHANGED <<prefix, ignoreClasses, classesChanged, className, filePath, fileVars, options>>

ProcessApplyDirectives ==
    /\ op = "new"
    /\ \E c \in CssContents :
         /\ content' = c
         /\ out' = processApplyDirectives(c)
    /\ op' = "processApplyDirectives"
    /\ UNCHANGED <<prefix, ignoreClasses, classesChanged, className, filePath, fileVars, options>>

ProcessContent ==
    /\ op = "new"
    /\ \E c \in AttrContents \cup CssContents, p \in FilePaths :
         /\ content' = c
         /\ filePath' = p
         /\ out' = processContent(c, p)
         /\ classesChanged' = classesChanged + contentChangeCount(c, p)
    /\ op' = "processContent"
    /\ UNCHANGED <<prefix, ignoreClasses, className, fileVars, options>>

NextExtract ==
    \/ ProcessHtmlClasses
    \/ ProcessJsClasses
    \/ ProcessCssSelectors
    \/ ProcessApplyDirectives
    \/ ProcessContent

SpecExtract == InitDefault /\ [][NextExtract]_vars

----------------------------------------------------------------------------
(* Files: createBackup, restoreFromBackup, processFile, run and            *)
(* updateTailwindConfig.  A path is written relative to this.sourceDir     *)
(* with '/' as path.sep (so path.relative and path.join with sourceDir     *)
(* leave it as it is); the Tailwind config lies in the directory above.    *)
(* A file operation that fails has no effect on the disk.                  *)

\* s.replace(/[cs]/g, r): every character of s that is in cs replaced by r
replaceChars(s, cs, r) ==
    Flatten([i \in 1..Len(s) |-> IF s[i] \in cs THEN r ELSE <<s[i]>>])

RECURSIVE splitOn(_, _, _)
\* s.split(c) for a character c (cur is the piece being read)
splitOn(s, c, cur) ==
    IF s = <<>> THEN <<cur>>
    ELSE IF Head(s) = c THEN <<cur>> \o splitOn(Tail(s), c, <<>>)
    ELSE splitOn(Tail(s), c, Append(cur, Head(s)))

\* path.basename(p, ext)
basename(p, ext) ==
    LET base == substringFrom(p, lastIndexOf(p, "/") + 1)
    IN IF Len(base) > Len(ext) /\ substringFrom(base, Len(base) - Len(ext)) = ext
       THEN substring(base, 0, Len(base) - Len(ext))
       ELSE base

\* fs.writeFile(p, c) on the directory tree fs
writeFile(fs, p, c) == [q \in DOMAIN fs \cup {p} |-> IF q = p THEN c ELSE fs[q]]

\* what a method does, in order: a file written (path, content; for a
\* backup, source is the file it is a copy of), a processFile call started,
\* a file list obtained, an error logged by a catch block
FileEvent(kind, p, source, c) == [op |-> kind, path |-> p, source |-> source, content |-> c]

\* new Date().toISOString().replace(/[:.]/g, '-')
timestampOf(date) == replaceChars(date, {":", "."}, <<"-">>)

\* createBackup's backupFileName for the relative path of the file
backupFileName(relativePath, date) ==
    replaceChars(relativePath, {"/", "\\"}, <<"_">>) \o <<"_">> \o timestampOf(date)
        \o Chars(".backup")

createBackup_swallowsError(fs, bs, path, date, fails) ==
    IF ~backup \/ fails \/ path \notin DOMAIN fs
    THEN [thrown |-> FALSE, value |-> <<>>, backups |-> bs, events |-> <<>>]
    ELSE [thrown |-> FALSE, value |-> backupFileName(path, date),
          backups |-> writeFile(bs, backupFileName(path, date), fs[path]),
          events |-> <<FileEvent("writeBackup", backupFileName(path, date), path, fs[path])>>]

\* createBackup(filePath) on the source tree fs and the backup directory bs;
\* fails: mkdir, readFile or writeFile throws.  The value is the backup path
\* (<<>> for null).
createBackup(fs, bs, path, date, fails) ==
    IF ~backup THEN [thrown |-> FALSE, value |-> <<>>, backups |-> bs, events |-> <<>>]
    ELSE IF fails \/ path \notin DOMAIN fs
    THEN [thrown |-> TRUE, value |-> <<>>, backups |-> bs, events |-> <<>>]
    ELSE LET backupPath == backupFileName(path, date)
         IN [thrown |-> FALSE, value |-> backupPath,
             backups |-> writeFile(bs, backupPath, fs[path]),
             events |-> <<FileEvent("writeBackup", backupPath, path, fs[path])>>]

\* restoreFromBackup's originalRelativePath for a backup file
originalRelativePath(backupFile) ==
    LET backupName == basename(backupFile, Chars(".backup"))
        parts == splitOn(backupName, "_", <<>>)
        popped == SubSeq(parts, 1, Len(parts) - 1)
    IN replaceChars(joinWith(popped, <<"_">>), {"_"}, <<"/">>)

catchError_rethrows(r) == r

\* the catch block of processFile: the error is logged and false returned
catchError(r) ==
    [r EXCEPT !.thrown = FALSE, !.value = FALSE,
              !.events = @ \o <<FileEvent("error", r.events[1].path, <<>>, <<>>)>>]

contentChanged_always(raw, processedContent) == TRUE

\* content !== processedContent
contentChanged(raw, processedContent) == raw # processedContent

\* where a file operation of processFile or updateTailwindConfig throws
FailModes == {"none", "backup", "read", "write"}

\* processFile(filePath): value is what it returns, read tells whether the
\* content was read, changed is what it adds to this.stats.classesChanged
processFile(fs, bs, path, date, fail) ==
    LET b == createBackup(fs, bs, path, date, fail = "backup")
        start == <<FileEvent("processFile", path, path, <<>>)>>
    IN IF b.thrown
       THEN catchError([thrown |-> TRUE, value |-> FALSE, files |-> fs, backups |-> bs,
                        events |-> start, read |-> FALSE, content |-> <<>>,
                        processed |-> <<>>, changed |-> 0])
       ELSE IF fail = "read" \/ path \notin DOMAIN fs
       THEN catchError([thrown |-> TRUE, value |-> FALSE, files |-> fs,
                        backups |-> b.backups, events |-> start \o b.events,
                        read |-> FALSE, content |-> <<>>, processed |-> <<>>,
                        changed |-> 0])
       ELSE LET raw == fs[path]
                processedContent == processContent(raw, path)
                done == [thrown |-> FALSE, value |-> FALSE, files |-> fs,
                         backups |-> b.backups, events |-> start \o b.events,
                         read |-> TRUE, content |-> raw, processed |-> processedContent,
                         changed |-> contentChangeCount(raw, path)]
            IN IF contentChanged(raw, processedContent)
               THEN IF fail = "write"
                    THEN catchError([done EXCEPT !.thrown = TRUE])
                    ELSE [done EXCEPT
                            !.value = TRUE,
                            !.files = writeFile(fs, path, processedContent),
                            !.events = @ \o <<FileEvent("writeFile", path, path,
                                                          processedContent)>>]
               ELSE done

\* the extensions of the default this.filePatterns
PatternExts ==
    {Chars(".html"), Chars(".php"), Chars(".css"), Chars(".scss"), Chars(".sass"),
     Chars(".js"), Chars(".jsx"), Chars(".ts"), Chars(".tsx"), Chars(".vue"),
     Chars(".svelte")}

\* the source files of the modelled tree, in the order getFiles lists them
SourcePaths == <<Chars("a.html"), Chars("d/b.css"), Chars("d_e.js")>>

\* the path of ./tailwind.config.js
ConfigPath == Chars("../tailwind.config.js")

\* getFiles(): the files of sourceDir that match this.filePatterns
getFiles(fs) ==
    SelectSeq(SourcePaths, LAMBDA p : p \in DOMAIN fs /\ extname(p) \in PatternExts)

\* the results of one iteration of run's loop and of those after it
runJoin(r, rest) ==
    [thrown |-> rest.thrown, value |-> <<r.value>> \o rest.value,
     files |-> rest.files, backups |-> rest.backups,
     events |-> r.events \o rest.events, changed |-> r.changed + rest.changed]

RECURSIVE runLoop(_, _, _, _, _)
RECURSIVE runFrom(_, _, _, _)
\* the for loop of run(); thrown: an exception reached run's catch block
runLoop(fs, bs, list, date, fails) ==
    IF list = <<>>
    THEN [thrown |-> FALSE, value |-> <<>>, files |-> fs, backups |-> bs,
          events |-> <<>>, changed |-> 0]
    ELSE runFrom(processFile(fs, bs, Head(list), date, Head(fails)), Tail(list), date,
                 Tail(fails))

\* the loop from the result r of processFile on: an exception leaves it
runFrom(r, list, date, fails) ==
    IF r.thrown
    THEN [thrown |-> TRUE, value |-> <<>>, files |-> r.files, backups |-> r.backups,
          events |-> r.events, changed |-> r.changed]
    ELSE runJoin(r, runLoop(r.files, r.backups, list, date, fails))

\* run(): accessible tells whether getFiles finds sourceDir; thrown is the
\* catch block (process.exit(1)); value holds wasUpdated of every file
run(fs, bs, accessible, date, fails) ==
    IF ~accessible
    THEN [thrown |-> TRUE, value |-> <<>>, files |-> fs, backups |-> bs,
          events |-> <<>>, changed |-> 0]
    ELSE LET loop == runLoop(fs, bs, getFiles(fs), date, fails)
         IN [loop EXCEPT !.events = <<FileEvent("getFiles", <<>>, <<>>, <<>>)>> \o @]

\* the replacement string of updateTailwindConfig
configReplacement == Chars("module.exports = {") \o <<"\n">> \o Chars("  prefix: '")
                         \o prefix \o Chars("',")

\* updateTailwindConfig(): its catch block logs the error and returns
updateTailwindConfig(fs, bs, date, fail) ==
    LET nothing == [thrown |-> FALSE, value |-> <<>>, files |-> fs, backups |-> bs,
                    events |-> <<>>, changed |-> 0]
        error == <<FileEvent("error", ConfigPath, <<>>, <<>>)>>
        b == createBackup(fs, bs, ConfigPath, date, fail = "backup")
    IN IF ConfigPath \notin DOMAIN fs THEN nothing
       ELSE IF b.thrown THEN [nothing EXCEPT !.events = error]
       ELSE IF fail = "read"
       THEN [nothing EXCEPT !.backups = b.backups, !.events = b.events \o error]
       ELSE LET configContent == fs[ConfigPath]
                replaced == strReplaceFirst(configContent, Chars("module.exports = {"),
                                            configReplacement)
            IN IF includes(configContent, Chars("prefix:"))
               THEN [nothing EXCEPT !.backups = b.backups, !.events = b.events]
               ELSE IF fail = "write"
               THEN [nothing EXCEPT !.backups = b.backups, !.events = b.events \o error]
               ELSE [nothing EXCEPT
                       !.files = writeFile(fs, ConfigPath, replaced),
                       !.backups = b.backups,
                       !.events = b.events
                                    \o <<FileEvent("writeFile", ConfigPath, ConfigPath,
                                                   replaced)>>]

\* the instants at which backups are taken (new Date().toISOString())
Dates == <<Chars("2026-01-02T03:04:05.006Z"), Chars("2026-01-02T03:04:05.007Z")>>

\* the names createBackup can give, in alphabetical order
BackupNames ==
    LET paths == <<ConfigPath>> \o SourcePaths
    IN [k \in 1..(Len(paths) * Len(Dates)) |->
          backupFileName(paths[((k - 1) \div Len(Dates)) + 1],
                         Dates[((k - 1) % Len(Dates)) + 1])]

\* glob.sync('**/*.backup', {cwd: this.backupDir}): the backup files, names
\* with a leading '.' left out (glob's dot option is off)
globBackups(bs) ==
    SelectSeq(BackupNames,
              LAMBDA n : n \in DOMAIN bs /\ n[1] # "."
                         /\ basename(n, Chars(".backup")) # n)

RECURSIVE restoreLoop(_, _, _, _)
\* the for loop of restoreFromBackup (backupTimestamp <<>>: none given)
restoreLoop(fs, bs, backupFiles, backupTimestamp) ==
    IF backupFiles = <<>> THEN [files |-> fs, events |-> <<>>, value |-> 0]
    ELSE LET backupFile == Head(backupFiles)
             originalPath == originalRelativePath(backupFile)
         IN IF backupTimestamp # <<>> /\ ~includes(backupFile, backupTimestamp)
            THEN restoreLoop(fs, bs, Tail(backupFiles), backupTimestamp)
            ELSE LET rest == restoreLoop(writeFile(fs, originalPath, bs[backupFile]), bs,
                                         Tail(backupFiles), backupTimestamp)
                 IN [files |-> rest.files,
                     events |-> <<FileEvent("writeFile", originalPath, backupFile,
                                            bs[backupFile])>> \o rest.events,
                     value |-> 1 + rest.value]

\* restoreFromBackup(backupTimestamp): value is restoredCount
restoreFromBackup(fs, bs, backupTimestamp) ==
    LET loop == restoreLoop(fs, bs, globBackups(bs), backupTimestamp)
    IN [loop EXCEPT !.events = <<FileEvent("globBackups", backupTimestamp, <<>>, <<>>)>> \o @]

\* the contents a modelled file starts with
HtmlFileContents == {Chars("<p class=\"bg\">"), Chars("<p class=\"Ab\">")}
CssFileContents == {Chars(".bg{}"), Chars(".tw-bg{}")}
JsFileContents == {Chars("className='bg'"), Chars("x=1")}
ConfigContents == {Chars("module.exports = {}"), Chars("module.exports = {prefix:'x'}")}

SourceTrees ==
    {[p \in {SourcePaths[k] : k \in 1..Len(SourcePaths)} |->
        IF p = SourcePaths[1] THEN h ELSE IF p = SourcePaths[2] THEN c ELSE j] :
        h \in HtmlFileContents, c \in CssFileContents, j \in JsFileContents}

\* the trees on disk: the source files, with or without a Tailwind config
Disks == SourceTrees \cup {writeFile(t, ConfigPath, c) : t \in SourceTrees, c \in ConfigContents}

\* the state after new TailwindPrefixBot({dryRun, backup}) over a tree
InitFiles ==
    /\ prefix = Chars("tw-")
    /\ ignoreClasses = <<Chars("swiper"), Chars("swiper-wrapper"), Chars("swiper-slide")>>
    /\ classesChanged = 0
    /\ op = "new"
    /\ className = <<>>
    /\ content = <<>>
    /\ filePath = <<>>
    /\ out = <<>>
    /\ dryRun \in BOOLEAN
    /\ backup \in BOOLEAN
    /\ files \in Disks
    /\ backups = NoFiles
    /\ events = <<>>
    /\ ret = [thrown |-> FALSE, value |-> <<>>]
    /\ options = NoOptions

\* the method ends with the result r: the disk, the backup directory and
\* this.stats.classesChanged are as it left them
Returns(r) ==
    /\ files' = r.files
    /\ backups' = r.backups
    /\ events' = r.events
    /\ ret' = [thrown |-> r.thrown, value |-> r.value]
    /\ classesChanged' = classesChanged + r.changed

\* processFile ends with the result r: content and out are what it read
\* and what processContent made of it
Reads(r) ==
    /\ content' = r.content
    /\ out' = r.processed
    /\ Returns(r)

ProcessFile ==
    /\ op = "new"
    /\ \E k \in 1..Len(SourcePaths), d \in 1..Len(Dates), fail \in FailModes :
         /\ filePath' = SourcePaths[k]
         /\ Reads(processFile(files, backups, SourcePaths[k], Dates[d], fail))
    /\ op' = "processFile"
    /\ UNCHANGED <<prefix, ignoreClasses, className, dryRun, backup, options>>

Run ==
    /\ op = "new"
    /\ \E accessible \in BOOLEAN, d \in 1..Len(Dates),
          fails \in [1..Len(SourcePaths) -> FailModes] :
         Returns(run(files, backups, accessible, Dates[d], fails))
    /\ op' = "run"
    /\ UNCHANGED <<prefix, ignoreClasses, className, content, filePath, out, dryRun, backup, options>>

UpdateTailwindConfig ==
    /\ op = "new"
    /\ \E d \in 1..Len(Dates), fail \in FailModes :
         Returns(updateTailwindConfig(files, backups, Dates[d], fail))
    /\ op' = "updateTailwindConfig"
    /\ UNCHANGED <<prefix, ignoreClasses, className, content, filePath, out,
                   dryRun, backup, options>>

CreateBackup ==
    /\ op = "new"
    /\ \E k \in 1..Len(SourcePaths), d \in 1..Len(Dates), fails \in BOOLEAN :
         LET r == createBackup(files, backups, SourcePaths[k], Dates[d], fails)
         IN /\ filePath' = SourcePaths[k]
            /\ content' = files[SourcePaths[k]]
            /\ backups' = r.backups
            /\ events' = r.events
            /\ ret' = [thrown |-> r.thrown, value |-> r.value]
    /\ op' = "createBackup"
    /\ UNCHANGED <<prefix, ignoreClasses, classesChanged, className, out, dryRun, backup,
                   files, options>>

\* the contents a file is given after its backup was taken
ModifiedContents == {<<>>, Chars("<p class=\"tw-bg\">")}

\* the file just backed up is modified (by a run, by hand)
ModifyFile ==
    /\ op = "createBackup"
    /\ ~ret.thrown /\ ret.value # <<>>
    /\ \E c \in ModifiedContents :
         /\ c # files[filePath]
         /\ files' = writeFile(files, filePath, c)
    /\ op' = "modified"
    /\ UNCHANGED <<prefix, ignoreClasses, classesChanged, className, content, filePath, out,
                   dryRun, backup, backups, events, ret, options>>

RestoreFromBackup ==
    /\ op \in {"modified", "run"}
    /\ \E backupTimestamp \in {<<>>} \cup {timestampOf(Dates[d]) : d \in 1..Len(Dates)} :
         LET r == restoreFromBackup(files, backups, backupTimestamp)
         IN /\ files' = r.files
            /\ events' = r.events
            /\ ret' = [thrown |-> FALSE, value |-> r.value]
    /\ op' = "restoreFromBackup"
    /\ UNCHANGED <<prefix, ignoreClasses, classesChanged, className, content, filePath, out,
                   dryRun, backup, backups, options>>

NextFiles ==
    \/ ProcessFile
    \/ Run
    \/ UpdateTailwindConfig
    \/ CreateBackup
    \/ ModifyFile
    \/ RestoreFromBackup

SpecFiles == InitFiles /\ [][NextFiles]_vars

----------------------------------------------------------------------------
(* The constructor and validateOptions *)

\* /^[a-zA-Z0-9_-]+$/
PrefixRegex == <<Plus(Set(WordChars)), Eos>>

\* s.replace(/-$/, ''): one trailing hyphen removed
stripTrailingHyphen(s) ==
    IF s # <<>> /\ s[Len(s)] = "-" THEN substring(s, 0, Len(s) - 1) ELSE s

LogLevels == {Chars("silent"), Chars("error"), Chars("warn"), Chars("info"), Chars("debug")}

\* validateOptions(options): the message of the Error it throws, "" when it
\* returns
validateOptions(opts) ==
    IF truthy(opts.prefix) /\ opts.prefix.type # "string"
    THEN "prefix must be a string"
    ELSE IF truthy(opts.prefix)
            /\ MatchParts(PrefixRegex, stripTrailingHyphen(opts.prefix.str), 0) = <<>>
    THEN "prefix must contain only alphanumeric characters, hyphens, and underscores"
    ELSE IF truthy(opts.sourceDir) /\ opts.sourceDir.type # "string"
    THEN "sourceDir must be a string"
    ELSE IF truthy(opts.logLevel)
            /\ ~(opts.logLevel.type = "string" /\ opts.logLevel.str \in LogLevels)
    THEN "logLevel must be one of: silent, error, warn, info, debug"
    ELSE ""

\* the length of the prefix strings given to the constructor
MaxPrefixLen == 3

PrefixAlphabet == {"t", "W", "2", "-", "_", "!"}

PrefixStrings == UNION {[1..n -> PrefixAlphabet] : n \in 0..MaxPrefixLen}

\* the values given as options.prefix
PrefixOptions ==
    {Str(p) : p \in PrefixStrings}
    \cup {Undefined, Null, Num(Chars("0")), Num(Chars("5")), Bool(Chars("false")),
          Bool(Chars("true"))}

SourceDirOptions == {Undefined, Str(Chars("./src")), Num(Chars("5"))}
LogLevelOptions == {Undefined, Str(Chars("debug")), Str(Chars("loud"))}
FlagOptions == {Undefined, Bool(Chars("true")), Bool(Chars("false"))}

ConstructorOptions ==
    [prefix : PrefixOptions, sourceDir : SourceDirOptions, logLevel : LogLevelOptions,
     dryRun : FlagOptions, backup : FlagOptions]

\* before new TailwindPrefixBot(options): no field is set
InitNew ==
    /\ prefix = <<>>
    /\ ignoreClasses = <<>>
    /\ classesChanged = 0
    /\ op = "none"
    /\ className = <<>>
    /\ content = <<>>
    /\ filePath = <<>>
    /\ out = <<>>
    /\ dryRun = FALSE
    /\ backup = FALSE
    /\ files = NoFiles
    /\ backups = NoFiles
    /\ events = <<>>
    /\ ret = [thrown |-> FALSE, value |-> <<>>]
    /\ options = NoOptions

\* new TailwindPrefixBot(opts): throws what validateOptions throws, else
\* sets the fields
Constructor ==
    /\ op = "none"
    /\ \E opts \in ConstructorOptions :
         /\ options' = opts
         /\ IF validateOptions(opts) # ""
            THEN /\ ret' = [thrown |-> TRUE, value |-> validateOptions(opts)]
                 /\ UNCHANGED <<prefix, ignoreClasses, backup, dryRun>>
            ELSE /\ ret' = [thrown |-> FALSE, value |-> <<>>]
                 /\ prefix' = IF truthy(opts.prefix) THEN opts.prefix.str ELSE Chars("tw-")
                 /\ ignoreClasses' = <<Chars("swiper"), Chars("swiper-wrapper"),
                                       Chars("swiper-slide")>>
                 /\ backup' = (opts.backup # Bool(Chars("false")))
                 /\ dryRun' = truthy(opts.dryRun)
    /\ op' = "constructor"
    /\ UNCHANGED <<classesChanged, className, content, filePath, out, files, backups,
                   events>>

NextConstruct == Constructor

SpecConstruct == InitNew /\ [][NextConstruct]_vars

----------------------------------------------------------------------------
(* The vocabulary of the properties: ModifierChain, BaseClass, the five    *)
(* classifier predicates                                                   *)

CharsOf(s) == {s[i] : i \in 1..Len(s)}

\* the token up to and including its last ':' (empty when it has none)
ModifierChainOf(t) == substring(t, 0, lastIndexOf(t, ":") + 1)

\* the token after its last ':' (the whole token when it has none)
BaseClassOf(t) == substringFrom(t, lastIndexOf(t, ":") + 1)

Negated(b) == b # <<>> /\ b[1] = "!"

StripBang(b) == IF Negated(b) THEN Tail(b) ELSE b

\* one or more segments "ident:", ident a non-empty run of [A-Za-z0-9_-]
IsModifierChain(m) ==
    /\ m # <<>>
    /\ m[Len(m)] = ":"
    /\ m[1] # ":"
    /\ \A i \in 1..Len(m) : m[i] \in WordChars \cup {":"}
    /\ \A i \in 1..(Len(m) - 1) : ~(m[i] = ":" /\ m[i + 1] = ":")

InIgnoreList(b) == \E i \in 1..Len(ignoreClasses) : ignoreClasses[i] = b
LowerThenUpper(b) == \E i \in 1..(Len(b) - 1) : b[i] \in LowerChars /\ b[i + 1] \in UpperChars
UnderscoreNoBracket(b) == "_" \in CharsOf(b) /\ "[" \notin CharsOf(b)
UpperDigitShortOrBem(b) ==
    \/ Len(b) < 2
    \/ b[1] \in UpperChars \cup DigitChars
    \/ \E i \in 1..(Len(b) - 1) : b[i] = "_" /\ b[i + 1] = "_"
FrameworkReserved(b) ==
    \E w \in {"ng-", "v-", "data-", "aria-", "role-"} :
        Len(b) >= Len(w) /\ \A i \in 1..Len(w) : b[i] = SubSeq(w, i, i)

AnyOfFive(b) ==
    \/ InIgnoreList(b)
    \/ LowerThenUpper(b)
    \/ UnderscoreNoBracket(b)
    \/ UpperDigitShortOrBem(b)
    \/ FrameworkReserved(b)

\* <ModifierChain> + '!' + prefix + b for a BaseClass '!' + b, and
\* <ModifierChain> + prefix + BaseClass otherwise
Prefixed(t) ==
    IF Negated(BaseClassOf(t))
    THEN ModifierChainOf(t) \o <<"!">> \o prefix \o Tail(BaseClassOf(t))
    ELSE ModifierChainOf(t) \o prefix \o BaseClassOf(t)

Rewritten == op = "addPrefixToClass"

----------------------------------------------------------------------------
(* Properties of the rewriter and the classifier *)

\* C1: rewriting is idempotent: rewriting the rewritten token returns it
\* unchanged.
C1_Idempotent == Rewritten => addPrefixToClass(out) = out

C1_Witness == Rewritten /\ out # className /\ ModifierChainOf(className) # <<>>

\* C2, as claimed: for a ModifierChain m and an eligible BaseClass b the
\* token m + b is rewritten to m + prefix + b.
C2_ModifierPreservation_AsClaimed ==
    LET m == ModifierChainOf(className)
        b == BaseClassOf(className)
    IN (Rewritten /\ IsModifierChain(m) /\ ~isNotTailwindClass(b))
       => out = m \o prefix \o b

\* C2, amended: for a ModifierChain m and an eligible BaseClass b that does
\* not start with '!', where m + b does not contain the prefix, the token
\* m + b is rewritten to m + prefix + b.
C2_ModifierPreservation ==
    LET m == ModifierChainOf(className)
        b == BaseClassOf(className)
    IN (Rewritten /\ IsModifierChain(m) /\ ~isNotTailwindClass(b)
          /\ ~Negated(b) /\ ~includes(className, prefix))
       => out = m \o prefix \o b

C2_Witness ==
    LET m == ModifierChainOf(className)
        b == BaseClassOf(className)
    IN /\ Rewritten /\ IsModifierChain(m) /\ ~isNotTailwindClass(b)
       /\ ~Negated(b) /\ ~includes(className, prefix)
       /\ includes(m, Chars("peer-")) /\ Len(b) > 2

\* C3: a BaseClass c of the ignore list (colon-free, whitespace-free) is
\* never prefixed: "hover:" + c is returned unchanged.
C3_IgnoreSetExact ==
    \A i \in 1..Len(ignoreClasses) :
        LET c == ignoreClasses[i]
        IN (Rewritten /\ className = Chars("hover:") \o c
              /\ CharsOf(c) \cap ({":"} \cup WhitespaceChars) = {})
           => out = className

\* C4: a token without the prefix whose BaseClass is '!' + b, b eligible, is
\* rewritten to <ModifierChain> + '!' + prefix + b; one whose BaseClass is
\* eligible and has no '!' to <ModifierChain> + prefix + BaseClass.
C4_Negation ==
    LET m == ModifierChainOf(className)
        base == BaseClassOf(className)
    IN /\ (Rewritten /\ ~includes(className, prefix) /\ Negated(base)
             /\ ~AnyOfFive(Tail(base)))
          => out = m \o <<"!">> \o prefix \o Tail(base)
       /\ (Rewritten /\ ~includes(className, prefix) /\ ~Negated(base)
             /\ ~AnyOfFive(base))
          => out = m \o prefix \o base
       /\ prefix = Chars("tw-")
          => /\ addPrefixToClass(Chars("!-mt-4")) = Chars("!tw--mt-4")
             /\ addPrefixToClass(Chars("hover:!-translate-x-2"))
                  = Chars("hover:!tw--translate-x-2")

C4_Witness ==
    /\ Rewritten /\ ~includes(className, prefix)
    /\ Negated(BaseClassOf(className))
    /\ ~AnyOfFive(Tail(BaseClassOf(className)))
    /\ ModifierChainOf(className) # <<>>
    /\ out # className

\* the BaseClass of the output carries the prefix
OutputBasePrefixed == startsWith(StripBang(BaseClassOf(out)), prefix)

\* C5, as claimed: isNotTailwindClass is true exactly when the BaseClass
\* (one '!' stripped) satisfies one of the five predicates; then the token
\* is returned unchanged; and when none holds the BaseClass is prefixed.
C5_Classifier_AsClaimed ==
    LET b == StripBang(BaseClassOf(className))
    IN Rewritten =>
         /\ isNotTailwindClass(className) <=> AnyOfFive(b)
         /\ isNotTailwindClass(className) => out = className
         /\ ~AnyOfFive(b) => OutputBasePrefixed

\* C5, amended: isNotTailwindClass is true exactly when the BaseClass (one
\* '!' stripped) satisfies one of the five predicates; then the token is
\* returned unchanged; and when none holds and the token does not already
\* contain the prefix, the BaseClass is prefixed.
C5_Classifier ==
    LET b == StripBang(BaseClassOf(className))
    IN Rewritten =>
         /\ isNotTailwindClass(className) <=> AnyOfFive(b)
         /\ isNotTailwindClass(className) => out = className
         /\ (~AnyOfFive(b) /\ ~includes(className, prefix))
            => out = Prefixed(className)

C5_Witness ==
    LET b == StripBang(BaseClassOf(className))
    IN /\ Rewritten /\ ~AnyOfFive(b) /\ ~includes(className, prefix)
       /\ "_" \in CharsOf(b)
       /\ out # className

\* the bracketed segments of t: <<i, j>> with t[i] = '[', t[j] = ']' and no
\* bracket between them
BracketSegments(t) ==
    {ij \in (1..Len(t)) \X (1..Len(t)) :
        /\ ij[1] < ij[2]
        /\ t[ij[1]] = "[" /\ t[ij[2]] = "]"
        /\ \A x \in (ij[1] + 1)..(ij[2] - 1) : t[x] \notin {"[", "]"}}

\* C6: a token with a bracketed segment is returned unchanged or gets the
\* prefix inserted outside every bracketed segment.
C6_BracketsNeverSplit ==
    (Rewritten /\ BracketSegments(className) # {})
    => \/ out = className
       \/ \E k \in 0..Len(className) :
            /\ out = substring(className, 0, k) \o prefix \o substringFrom(className, k)
            /\ \A ij \in BracketSegments(className) : ~(ij[1] <= k /\ k < ij[2])

----------------------------------------------------------------------------
(* Properties of the extractors *)

\* the class list L as the extractors are to rewrite it: its tokens through
\* addPrefixToClass, joined with single spaces
RewrittenList(L) == joinWith(mapAddPrefix(splitWs(L, <<>>)), <<" ">>)

\* a matched region with only its captured value replaced
ValueReplaced(text, m) ==
    substring(text, m[1], m[2]) \o RewrittenList(captureText(text, m))
        \o substring(text, m[3], m[4])

IsDynamic(value) == includes(value, Chars("${")) \/ includes(value, <<"?">>)

\* C7: in every matched class="..." region (processHtmlClasses) and
\* className="..." region (processJsClasses) only the captured value is
\* replaced, by its rewritten tokens joined with single spaces; attribute
\* name, '=', whitespace and quotes stay as they are.
C7_OnlyValueReplaced ==
    /\ op = "processHtmlClasses"
       => LET ms == AllMatches(HtmlClassRegex, content, 0)
          IN out = Splice(content, ms,
                          [k \in 1..Len(ms) |-> ValueReplaced(content, ms[k])], 0)
    /\ op = "processJsClasses"
       => LET ms == AllMatches(JsClassNameRegex, content, 0)
          IN out = Splice(content, ms,
                          [k \in 1..Len(ms) |->
                              IF IsDynamic(captureText(content, ms[k]))
                              THEN matchText(content, ms[k])
                              ELSE ValueReplaced(content, ms[k])], 0)

RECURSIVE OutsidePreserved(_, _, _, _, _)
\* o is s with each of the regions spans[k] = <<from, to>> of s replaced by
\* some text: from position i of s and j of o on, every character of s
\* outside the regions appears in o, unchanged and in the same order
OutsidePreserved(s, spans, i, o, j) ==
    IF spans = <<>> THEN substringFrom(s, i) = substringFrom(o, j)
    ELSE LET gap == substring(s, i, Head(spans)[1])
         IN /\ j + Len(gap) <= Len(o)
            /\ substring(o, j, j + Len(gap)) = gap
            /\ \E n \in 0..(Len(o) - j - Len(gap)) :
                 OutsidePreserved(s, Tail(spans), Head(spans)[2], o, j + Len(gap) + n)

\* the regions an extractor matches in s: the captured values (attribute
\* values, selector class names) or the whole matches (@apply directives)
CapturedRegions(regex, s) ==
    LET ms == AllMatches(regex, s, 0) IN [k \in 1..Len(ms) |-> <<ms[k][2], ms[k][3]>>]
MatchedRegions(regex, s) ==
    LET ms == AllMatches(regex, s, 0) IN [k \in 1..Len(ms) |-> <<ms[k][1], ms[k][Len(ms[k])]>>]

\* C8: processContent leaves every character outside the regions matched by
\* the extractors run for the file's extension unchanged and in order (pass
\* by pass: each extractor preserves what lies outside its own regions).
C8_NonMatchedPreserved ==
    op = "processContent" =>
      LET fileExt == toLowerCase(extname(filePath))
      IN IF fileExt \in HtmlExts
         THEN OutsidePreserved(content, CapturedRegions(HtmlClassRegex, content), 0, out, 0)
         ELSE IF fileExt = Chars(".css")
         THEN LET mid == processCssSelectors(content)
              IN /\ OutsidePreserved(content, CapturedRegions(CssSelectorRegex, content),
                                     0, mid, 0)
                 /\ OutsidePreserved(mid, MatchedRegions(CssApplyRegex, mid), 0, out, 0)
         ELSE IF fileExt \in JsExts
         THEN LET mid == processJsClasses(content)
              IN /\ OutsidePreserved(content, CapturedRegions(JsClassNameRegex, content),
                                     0, mid, 0)
                 /\ OutsidePreserved(mid, CapturedRegions(HtmlClassRegex, mid), 0, out, 0)
         ELSE out = content

\* the four documented forms of a static className: "L", 'L', {"L"}, {`L`}
DocumentedForms ==
    {<<<<"\"">>, <<"\"">>>>, <<<<"'">>, <<"'">>>>,
     <<<<"{", "\"">>, <<"\"", "}">>>>, <<<<"{", Backtick>>, <<Backtick, "}">>>>}

\* C9: processJsClasses rewrites a static class list L (one or more tokens,
\* no '${', no '?') in each of the four documented forms: L is replaced by
\* its rewritten tokens joined with single spaces.
C9_StaticFormsRewritten ==
    op = "processJsClasses" =>
      \A d \in DocumentedForms, L \in ClassLists :
        (splitWs(L, <<>>) # <<>> /\ content = Chars("className=") \o d[1] \o L \o d[2])
        => out = Chars("className=") \o d[1] \o RewrittenList(L) \o d[2]

\* C10: a className region whose value is not a static class list (it has
\* a '${' or a '?', or is a computed expression in braces) is returned
\* unchanged by processJsClasses.
C10_DynamicUnmodified ==
    op = "processJsClasses" =>
      \A sh \in {x \in AttrShapes : x.name = Chars("className")} :
        /\ \A d \in AttrDelimiters, v \in TemplateValues :
             content = Attr(sh, d, v) => out = content
        /\ \A v \in ComputedValues :
             content = Attr(sh, <<<<"{">>, <<"}">>>>, v) => out = content

----------------------------------------------------------------------------
(* Properties of the methods on files *)

\* the writeFile operations of the last method on source (or config) files
FileWrites == SelectSeq(events, LAMBDA e : e.op = "writeFile")

\* C11: with dryRun = true no execution of run(), processFile() or
\* updateTailwindConfig() changes a source file or the Tailwind config: the
\* disk after the method is the disk before it.
C11_DryRunWritesNothing ==
    [][(dryRun /\ op' \in {"run", "processFile", "updateTailwindConfig"})
          => files' = files]_vars

\* C12: with backup enabled, every write of processFile, of run's
\* processFile calls and of updateTailwindConfig to a file comes after a
\* backup of that file written by the same call, holding the content the
\* file had before the write; when createBackup fails there is no such
\* backup, hence no write.
C12_BackupPrecedesWrite ==
    [][(backup /\ op' \in {"processFile", "run", "updateTailwindConfig"})
          => \A k \in 1..Len(events') :
               events'[k].op = "writeFile"
               => \E j \in 1..(k - 1) :
                    /\ events'[j].op = "writeBackup"
                    /\ events'[j].source = events'[k].path
                    /\ events'[j].content = files[events'[k].path]
                    /\ events'[j].path \in DOMAIN backups'
                    /\ backups'[events'[j].path] = files[events'[k].path]]_vars

C12_Witness ==
    /\ backup /\ op = "updateTailwindConfig"
    /\ Len(FileWrites) = 1
    /\ Len(events) = 2 /\ events[1].op = "writeBackup"

\* C13: createBackup(f) taken while f holds c, then a modification of f,
\* then restoreFromBackup() writes c back to f and writes no other path.
C13_BackupRestoreRoundTrip ==
    (op = "restoreFromBackup" /\ filePath # <<>> /\ events[1].path = <<>>)
    => /\ files[filePath] = content
       /\ \A k \in 1..Len(FileWrites) : FileWrites[k].path = filePath

\* the errors logged by the catch blocks of the last method
LoggedErrors == SelectSeq(events, LAMBDA e : e.op = "error")

\* C16: processFile writes the file only when processContent's output
\* differs from the content read, and then writes that output; when they
\* are equal the file is not written and false is returned; true is
\* returned exactly when the file was written; and when no file operation
\* fails, a differing output is written.
C16_NoOpDetection ==
    [][op' = "processFile"
         => LET raw == files[filePath']
                processed == processContent(raw, filePath')
                wrote == FileWrites' # <<>>
            IN /\ wrote => (processed # raw /\ files' = writeFile(files, filePath', processed))
               /\ ~wrote => files' = files
               /\ processed = raw => (~wrote /\ ret'.value = FALSE)
               /\ ret'.value = TRUE <=> wrote
               /\ (LoggedErrors' = <<>> /\ processed # raw) => wrote]_vars

C16_Witness ==
    /\ op = "processFile" /\ LoggedErrors = <<>>
    /\ content # <<>> /\ out = content
    /\ FileWrites = <<>> /\ ret.value = FALSE

\* C17: processFile (no file operation failing) creates no backup for a
\* file whose rewritten text equals its raw text.
C17_NoSpuriousBackup ==
    [][(op' = "processFile" /\ LoggedErrors' = <<>>
          /\ processContent(files[filePath'], filePath') = files[filePath'])
         => backups' = backups]_vars

\* C18: run() invokes processFile once on every file of getFiles, in list
\* order, whatever files fail; no exception escapes; a failing file yields
\* false; a file that does not fail is written when its content changes.
C18_BatchContinues ==
    [][(op' = "run" /\ events' # <<>>)
         => LET list == getFiles(files)
                calls == SelectSeq(events', LAMBDA e : e.op = "processFile")
                failed(f) == \E k \in 1..Len(LoggedErrors') : LoggedErrors'[k].path = f
            IN /\ ~ret'.thrown
               /\ [k \in 1..Len(calls) |-> calls[k].path] = list
               /\ Len(ret'.value) = Len(list)
               /\ \A k \in 1..Len(list) :
                    /\ failed(list[k]) => (ret'.value[k] = FALSE /\ files'[list[k]] = files[list[k]])
                    /\ ~failed(list[k])
                       => /\ files'[list[k]] = processContent(files[list[k]], list[k])
                          /\ ret'.value[k] = (files'[list[k]] # files[list[k]])]_vars

C18_Witness ==
    /\ op = "run"
    /\ \E i, j \in 1..Len(events) :
         i < j /\ events[i].op = "error" /\ events[j].op = "writeFile"

----------------------------------------------------------------------------
(* Properties of processContent over the documented file types *)

\* the documented file types and what is rewritten in each
ClassAttributeExts == {Chars(".html"), Chars(".php"), Chars(".vue"), Chars(".svelte")}
StylesheetExts == {Chars(".css"), Chars(".scss"), Chars(".sass")}
ClassNameAttributeExts == {Chars(".js"), Chars(".jsx"), Chars(".ts"), Chars(".tsx")}

\* a token that is eligible and carries no prefix
EligibleUnprefixed(t) == ~isNotTailwindClass(t) /\ ~includes(t, prefix)

\* a class list with an eligible unprefixed token
HasEligibleClass(L) ==
    \E i \in 1..Len(splitWs(L, <<>>)) : EligibleUnprefixed(splitWs(L, <<>>)[i])

QuotePairs == {<<<<"\"">>, <<"\"">>>>, <<<<"'">>, <<"'">>>>}

\* the content is an attribute of the given name, quoted, whose class list
\* has an eligible unprefixed class
EligibleInAttribute(text, name) ==
    \E sh \in AttrShapes, q \in QuotePairs, L \in ClassLists :
        sh.name = name /\ text = Attr(sh, q, L) /\ HasEligibleClass(L)

\* the content is a rule whose selector has the unprefixed class .bg or
\* whose @apply list has an eligible unprefixed class
EligibleInStylesheet(text) ==
    \/ \E sel \in CssSelectors, body \in CssBodies :
          /\ includes(sel, Chars(".bg"))
          /\ text = sel \o <<"{">> \o body \o <<"}">>
    \/ \E sel \in CssSelectors, L \in ClassLists, t \in {<<>>, <<";">>} :
          /\ text = sel \o <<"{">> \o Chars("@apply ") \o L \o t \o <<"}">>
          /\ HasEligibleClass(L)

\* C14: for every extension of the documented support table, a content
\* with an eligible unprefixed class in the position listed for that
\* extension is changed by processContent.
C14_DocumentedTypesProcessed ==
    op = "processContent" =>
      LET fileExt == toLowerCase(extname(filePath))
      IN /\ (fileExt \in ClassAttributeExts /\ EligibleInAttribute(content, Chars("class")))
            => out # content
         /\ (fileExt \in StylesheetExts /\ EligibleInStylesheet(content))
            => out # content
         /\ (fileExt \in ClassNameAttributeExts
               /\ EligibleInAttribute(content, Chars("className")))
            => out # content

----------------------------------------------------------------------------
(* Properties of the constructor *)

\* a non-empty string over [A-Za-z0-9_-] once one trailing hyphen is removed
ValidPrefix(v) ==
    /\ v.type = "string"
    /\ LET stripped == IF v.str # <<>> /\ v.str[Len(v.str)] = "-"
                       THEN SubSeq(v.str, 1, Len(v.str) - 1) ELSE v.str
       IN stripped # <<>> /\ \A i \in 1..Len(stripped) : stripped[i] \in WordChars

PrefixErrors ==
    {"prefix must be a string",
     "prefix must contain only alphanumeric characters, hyphens, and underscores"}

\* C15: the constructor given a prefix option throws a prefix error exactly
\* when the prefix is not a non-empty string over [A-Za-z0-9_-] after one
\* trailing hyphen is removed, and every accepted prefix is the one stored
\* in this.prefix.
C15_PrefixValidation ==
    (op = "constructor" /\ options.prefix # Undefined)
    => /\ (ret.thrown /\ ret.value \in PrefixErrors) <=> ~ValidPrefix(options.prefix)
       /\ ~ret.thrown => prefix = options.prefix.str

\* C19: processContent is idempotent on contents: processing the content
\* it returned, for the same file path, returns it unchanged (so a second
\* run writes nothing).
C19_ContentIdempotent ==
    op = "processContent" => processContent(out, filePath) = out

\* C20: for a class name n over [A-Za-z0-9_-], the name processCssSelectors
\* gives the selector '.n' is the token addPrefixToClass gives n.
C20_SelectorAgreesWithMarkup ==
    (Rewritten /\ className # <<>> /\ CharsOf(className) \subseteq WordChars)
    => processCssSelectors(<<".">> \o className) = <<".">> \o out

====
